---- MODULE Spec2Model ----
(***************************************************************************)
(* Blackspot identification of the accident dashboard                      *)
(* (analytics.identify_blackspot_zones): DBSCAN over the record            *)
(* coordinates, one summary per cluster, risk score, descending sort.      *)
(*                                                                         *)
(* Units.  Coordinates are integers in millidegrees (1/1000 degree) and    *)
(* eps_km is an integer in tenths of a kilometre (the step of the          *)
(* "Cluster Distance (km)" slider), so that the comparison                 *)
(*     euclidean(p, q) <= eps_km / 111.0                                   *)
(* is the integer comparison                                               *)
(*     111^2 * d2(p, q) <= 100^2 * eps_km^2.                               *)
(* No integer d2 used here makes the two sides equal, so floating point    *)
(* rounding cannot change any comparison of the model.                     *)
(***************************************************************************)
EXTENDS Integers, Sequences, FiniteSets, TLC

VARIABLES
    df,             \* the DataFrame argument: sequence of rows, in row order
    cluster,        \* the 'cluster' column of df; <<>> while df has no such column
    eps_km,         \* argument eps_km of the call (tenths of a km)
    min_samples,    \* argument min_samples of the call
    blackspots_df,  \* the returned DataFrame: sequence of summary rows
    status,         \* "ready" before the call, then "returned" or "raised"
                    \* ("filtered" after filter_data, "displayed" after
                    \* the dashboard applied its filters)
    calls,          \* number of calls of identify_blackspot_zones made on df
    features,       \* the GeoJSON features load_accident_data read
    sidebar,        \* the selections of the dashboard's sidebar widgets
    filter_args,    \* the arguments filter_data was called with
    filtered_df     \* the DataFrame filter_data returned

vars == <<df, cluster, eps_km, min_samples, blackspots_df, status,
          calls, features, sidebar, filter_args, filtered_df>>

----------------------------------------------------------------------------
(* Bounds of the model *)

MaxRecords == 4
MaxPerSite == 2
NumSites == 5
MaxMinSamples == 4
MaxFilterRecords == 2
MaxFeatures == 2

(* Program constants *)

KmPerDegree == 111
DefaultEpsKm == 5
DefaultMinSamples == 5
NoiseLabel == 0 - 1
FatalWeight == 5
SevereWeight == 3
LightWeight == 1

(* Units of the model: millidegrees per tenth of a kilometre-per-degree,  *)
(* i.e. 1000 coordinate units per degree over 10 eps units per km         *)

UnitScale == 100

(* Input fixtures: a reference point inside the Swiss bounding box *)

LatBase == 47370
LonBase == 8540
SiteStep == 3

----------------------------------------------------------------------------
(* Small helpers *)

Range(s) == {s[i] : i \in 1..Len(s)}

Reverse(s) == [i \in 1..Len(s) |-> s[Len(s) + 1 - i]]

RECURSIVE SumSeq(_)
SumSeq(s) == IF s = <<>> THEN 0 ELSE Head(s) + SumSeq(Tail(s))

RECURSIVE Repeat(_, _)
Repeat(x, n) == IF n = 0 THEN <<>> ELSE <<x>> \o Repeat(x, n - 1)

RECURSIVE SeqsUpTo(_, _)
SeqsUpTo(S, n) ==
    IF n = 0 THEN {<<>>}
    ELSE LET shorter == SeqsUpTo(S, n - 1)
         IN shorter \cup {Append(s, x) : s \in {t \in shorter : Len(t) = n - 1}, x \in S}

----------------------------------------------------------------------------
(* DataFrame rows *)

Row(lat, lon, sev, bike, canton, type) ==
    [latitude |-> lat, longitude |-> lon,
     AccidentSeverityCategory |-> sev,
     AccidentInvolvingBicycle |-> bike,
     CantonCode |-> canton,
     AccidentType_en |-> type]

(* df with its 'cluster' column, when it has one *)
Annotated(rows, labels) ==
    IF labels = <<>> THEN rows
    ELSE [i \in 1..Len(rows) |-> [cluster |-> labels[i]] @@ rows[i]]

(* coords = df.values restricted to the numeric columns: a 'cluster'      *)
(* column of an earlier run becomes a third coordinate, one label apart    *)
(* being far beyond any eps (folded here onto the longitude axis)          *)
CoordsAllNumeric(rows) ==
    [i \in 1..Len(rows) |->
        <<rows[i].latitude,
          rows[i].longitude +
              (IF "cluster" \in DOMAIN rows[i] THEN 50 * rows[i].cluster ELSE 0)>>]

(* coords = df[['latitude', 'longitude']].values *)
Coords(rows) == [i \in 1..Len(rows) |-> <<rows[i].latitude, rows[i].longitude>>]

----------------------------------------------------------------------------
(* DBSCAN(eps=eps_km / 111.0, min_samples, metric='euclidean')             *)

(* squared euclidean distance of two coordinate pairs, in millidegrees^2 *)
SqDist(p, q) ==
    (p[1] - q[1]) * (p[1] - q[1]) + (p[2] - q[2]) * (p[2] - q[2])

(* the comparison with eps_km taken for degrees: the division by 111 lost *)
WithinEpsNoConversion(p, q, eps) ==
    SqDist(p, q) <= UnitScale * UnitScale * eps * eps

(* euclidean(p, q) <= eps_degrees, with eps_degrees = eps / 111.0 *)
WithinEps(p, q, eps) ==
    KmPerDegree * KmPerDegree * SqDist(p, q) <= UnitScale * UnitScale * eps * eps

(* radius_neighbors: the indices within eps_degrees of point i, i included *)
Neighborhood(coords, i, eps) ==
    SelectSeq([j \in 1..Len(coords) |-> j],
              LAMBDA j : WithinEps(coords[i], coords[j], eps))

(* core test that does not count the point itself *)
IsCoreExcludingSelf(neighborhoods, i, m) == Len(neighborhoods[i]) - 1 >= m

(* core test that asks for exactly min_samples points *)
IsCoreExactly(neighborhoods, i, m) == Len(neighborhoods[i]) = m

(* core_samples: n_neighbors >= min_samples, the point itself counted *)
IsCore(neighborhoods, i, m) == Len(neighborhoods[i]) >= m

(* an expansion that labels the seed and its neighbours and stops there *)
ExpandSeedOnly(is_core, neighborhoods, labels, stack, i, label_num) ==
    [v \in DOMAIN labels |->
        IF v = i \/ (v \in Range(neighborhoods[i]) /\ labels[v] = NoiseLabel)
        THEN label_num
        ELSE labels[v]]

(* The depth-first expansion of one cluster from point i (dbscan_inner's   *)
(* inner loop): label i if unlabelled, push the unlabelled neighbours of   *)
(* a core point, pop the next point.                                       *)
RECURSIVE Expand(_, _, _, _, _, _)
Expand(is_core, neighborhoods, labels, stack, i, label_num) ==
    LET fresh == labels[i] = NoiseLabel
        labelled == IF fresh THEN [labels EXCEPT ![i] = label_num] ELSE labels
        pushed == IF fresh /\ is_core[i]
                  THEN SelectSeq(neighborhoods[i],
                                 LAMBDA v : labelled[v] = NoiseLabel)
                  ELSE <<>>
        stack1 == stack \o pushed
    IN IF stack1 = <<>> THEN labelled
       ELSE Expand(is_core, neighborhoods, labelled,
                   SubSeq(stack1, 1, Len(stack1) - 1),
                   stack1[Len(stack1)], label_num)

(* dbscan_inner's outer loop: every unlabelled core point, in index order, *)
(* seeds the next cluster label.                                           *)
RECURSIVE DbscanInner(_, _, _, _, _)
DbscanInner(is_core, neighborhoods, labels, i, label_num) ==
    IF i > Len(labels) THEN labels
    ELSE IF labels[i] # NoiseLabel \/ ~is_core[i]
         THEN DbscanInner(is_core, neighborhoods, labels, i + 1, label_num)
         ELSE DbscanInner(is_core, neighborhoods,
                          Expand(is_core, neighborhoods, labels, <<>>, i, label_num),
                          i + 1, label_num + 1)

(* clustering.fit_predict(coords): labels 0, 1, ... and -1 for noise *)
FitPredict(coords, eps, m) ==
    LET n == Len(coords)
        neighborhoods == [i \in 1..n |-> Neighborhood(coords, i, eps)]
        is_core == [i \in 1..n |-> IsCore(neighborhoods, i, m)]
    IN DbscanInner(is_core, neighborhoods, [i \in 1..n |-> NoiseLabel], 1, 0)

(* a missing coordinate, NaN in the coordinate array; no coordinate of a   *)
(* record is negative                                                      *)
NaN == 0 - 1

(* the input check of fit_predict: no coordinate is NaN *)
AllFinite(coords) == \A i \in 1..Len(coords) : coords[i][1] # NaN /\ coords[i][2] # NaN

(* a validation of eps alone *)
ValidParamsEpsOnly(eps, m) == eps > 0

(* DBSCAN's parameter validation: eps > 0 and min_samples >= 1 *)
ValidParams(eps, m) == eps > 0 /\ m >= 1

----------------------------------------------------------------------------
(* Per-cluster summaries *)

(* iteration over df['cluster'] itself, duplicates kept *)
UniqueNoDedup(s) == s

(* df['cluster'].unique(): the labels in order of first appearance *)
RECURSIVE Unique(_)
Unique(s) ==
    IF s = <<>> THEN <<>>
    ELSE LET front == Unique(SubSeq(s, 1, Len(s) - 1))
             last == s[Len(s)]
         IN IF last \in Range(front) THEN front ELSE Append(front, last)

(* the lexical order pandas sorts the modes by *)
LexOrder == <<"BE", "Collision", "Skidding", "ZH">>
LexRank(v) == CHOOSE k \in 1..Len(LexOrder) : LexOrder[k] = v

(* the most frequent value, the first to occur of those that tie *)
ModeFirstEncountered(values) ==
    LET count(v) == Len(SelectSeq(values, LAMBDA w : w = v))
        modes == {v \in Range(values) : \A w \in Range(values) : count(w) <= count(v)}
        first(v) == CHOOSE k \in 1..Len(values) :
                        values[k] = v /\ \A l \in 1..(k - 1) : values[l] # v
    IN IF modes = {} THEN "Unknown"
       ELSE CHOOSE v \in modes : \A w \in modes : first(v) <= first(w)

(* Series.mode().iloc[0]: the most frequent value, the lexically first of  *)
(* those that tie; 'Unknown' when there is none                            *)
Mode(values) ==
    LET count(v) == Len(SelectSeq(values, LAMBDA w : w = v))
        modes == {v \in Range(values) : \A w \in Range(values) : count(w) <= count(v)}
    IN IF modes = {} THEN "Unknown"
       ELSE CHOOSE v \in modes : \A w \in modes : LexRank(v) <= LexRank(w)

(* Series.mean(), kept exact as sum over count *)
Mean(values) == [sum |-> SumSeq(values), count |-> Len(values)]

Column(rows, f) == [i \in 1..Len(rows) |-> rows[i][f]]

CountWhere(rows, f, v) == Len(SelectSeq(rows, LAMBDA r : r[f] = v))

(* the weights of fatal and severe accidents exchanged *)
RiskScoreSwapped(fatal_count, severe_count, light_count) ==
    fatal_count * SevereWeight + severe_count * FatalWeight + light_count * LightWeight

(* risk_score = fatal_count * 5 + severe_count * 3 + light_count * 1 *)
RiskScore(fatal_count, severe_count, light_count) ==
    fatal_count * FatalWeight + severe_count * SevereWeight + light_count * LightWeight

(* cluster_data = df[df['cluster'] != -1]: every clustered row *)
ClusterDataAllClustered(rows, labels, cluster_id) ==
    LET idx == SelectSeq([i \in 1..Len(rows) |-> i], LAMBDA i : labels[i] # NoiseLabel)
    IN [k \in 1..Len(idx) |-> rows[idx[k]]]

(* cluster_data = df[df['cluster'] == cluster_id] *)
ClusterData(rows, labels, cluster_id) ==
    LET idx == SelectSeq([i \in 1..Len(rows) |-> i], LAMBDA i : labels[i] = cluster_id)
    IN [k \in 1..Len(idx) |-> rows[idx[k]]]

(* the dictionary appended to blackspots for one cluster *)
Summary(rows, labels, cluster_id) ==
    LET cluster_data == ClusterData(rows, labels, cluster_id)
        fatal_count == CountWhere(cluster_data, "AccidentSeverityCategory", "as1")
        severe_count == CountWhere(cluster_data, "AccidentSeverityCategory", "as2")
        light_count == CountWhere(cluster_data, "AccidentSeverityCategory", "as3")
    IN [cluster_id |-> cluster_id,
        center_lat |-> Mean(Column(cluster_data, "latitude")),
        center_lon |-> Mean(Column(cluster_data, "longitude")),
        accident_count |-> Len(cluster_data),
        fatal_accidents |-> fatal_count,
        severe_accidents |-> severe_count,
        light_accidents |-> light_count,
        bicycle_accidents |-> CountWhere(cluster_data, "AccidentInvolvingBicycle", "true"),
        canton |-> Mode(Column(cluster_data, "CantonCode")),
        most_common_type |-> Mode(Column(cluster_data, "AccidentType_en")),
        risk_score |-> RiskScore(fatal_count, severe_count, light_count)]

(* the loop without its "if cluster_id == -1: continue" *)
BlackspotsWithNoise(rows, labels) ==
    LET ids == Unique(labels)
    IN [k \in 1..Len(ids) |-> Summary(rows, labels, ids[k])]

(* the loop over df['cluster'].unique(), noise skipped *)
Blackspots(rows, labels) ==
    LET ids == SelectSeq(Unique(labels), LAMBDA c : c # NoiseLabel)
    IN [k \in 1..Len(ids) |-> Summary(rows, labels, ids[k])]

----------------------------------------------------------------------------
(* blackspots_df.sort_values('risk_score', ascending=False)                *)

(* insertion of x behind the rows whose key is not larger (the insertion   *)
(* sort numpy's quicksort runs on arrays of at most 16 elements)           *)
RECURSIVE InsertByRisk(_, _)
InsertByRisk(sorted, x) ==
    IF sorted = <<>> THEN <<x>>
    ELSE LET last == sorted[Len(sorted)]
         IN IF last.risk_score <= x.risk_score THEN Append(sorted, x)
            ELSE Append(InsertByRisk(SubSeq(sorted, 1, Len(sorted) - 1), x), last)

RECURSIVE SortAscending(_)
SortAscending(s) ==
    IF s = <<>> THEN <<>>
    ELSE InsertByRisk(SortAscending(SubSeq(s, 1, Len(s) - 1)), s[Len(s)])

(* sort_values('risk_score') with ascending left at its default *)
SortValuesAscending(s) == SortAscending(s)

(* pandas sorts descending by reversing, sorting ascending and reversing *)
SortValuesDescending(s) == Reverse(SortAscending(Reverse(s)))

----------------------------------------------------------------------------
(* filter_data *)

(* The Python values passed as arguments: the type, the value of a bool,   *)
(* the items of a list or tuple, a str as one item unless it is empty.     *)
None == [type |-> "NoneType", b |-> FALSE, items |-> <<>>]
Bool(x) == [type |-> "bool", b |-> x, items |-> <<>>]
List(s) == [type |-> "list", b |-> FALSE, items |-> s]
Tuple(s) == [type |-> "tuple", b |-> FALSE, items |-> s]
Str(s) == [type |-> "str", b |-> FALSE, items |-> IF s = "" THEN <<>> ELSE <<s>>]

(* the truth value Python gives v in 'if v and ...' *)
Truthy(v) == IF v.type = "bool" THEN v.b ELSE v.items # <<>>

(* the test for the values that are not in the list *)
IsNotIn(x, values) == \A k \in 1..Len(values.items) : values.items[k] # x

(* Series.isin(values), for one value x of the column *)
IsIn(x, values) == \E k \in 1..Len(values.items) : values.items[k] = x

(* the defaults of the signature: every list None, every show_ flag True *)
DefaultFilterArgs ==
    [years |-> None, severities |-> None, accident_types |-> None,
     road_types |-> None, cantons |-> None,
     show_pedestrian |-> Bool(TRUE), show_bicycle |-> Bool(TRUE),
     show_motorcycle |-> Bool(TRUE),
     months |-> None, hour_range |-> None]

(* the filter applied as soon as a list is given, the empty list included *)
IsinFilterEmptyRejects(rows, column, values) ==
    IF values.type # "NoneType"
    THEN SelectSeq(rows, LAMBDA r : IsIn(r[column], values))
    ELSE rows

(* if values and column in filtered_df.columns:                            *)
(*     filtered_df = filtered_df[filtered_df[column].isin(values)]         *)
IsinFilter(rows, column, values) ==
    IF Truthy(values)
    THEN SelectSeq(rows, LAMBDA r : IsIn(r[column], values))
    ELSE rows

(* the party filter without the rows that involve none of the parties *)
PartyFilterSelectedOnly(rows, show_pedestrian, show_bicycle, show_motorcycle) ==
    LET combined_condition(r) ==
            \/ Truthy(show_pedestrian) /\ r.AccidentInvolvingPedestrian = "true"
            \/ Truthy(show_bicycle) /\ r.AccidentInvolvingBicycle = "true"
            \/ Truthy(show_motorcycle) /\ r.AccidentInvolvingMotorcycle = "true"
    IN IF ~(Truthy(show_pedestrian) \/ Truthy(show_bicycle) \/ Truthy(show_motorcycle))
       THEN rows
       ELSE SelectSeq(rows, LAMBDA r : combined_condition(r))

(* the party filter without its 'show all' branch *)
PartyFilterNoShowAll(rows, show_pedestrian, show_bicycle, show_motorcycle) ==
    LET combined_condition(r) ==
            \/ Truthy(show_pedestrian) /\ r.AccidentInvolvingPedestrian = "true"
            \/ Truthy(show_bicycle) /\ r.AccidentInvolvingBicycle = "true"
            \/ Truthy(show_motorcycle) /\ r.AccidentInvolvingMotorcycle = "true"
        no_special_parties(r) ==
            /\ r.AccidentInvolvingPedestrian = "false"
            /\ r.AccidentInvolvingBicycle = "false"
            /\ r.AccidentInvolvingMotorcycle = "false"
    IN SelectSeq(rows, LAMBDA r : combined_condition(r) \/ no_special_parties(r))

(* Involved parties filter: nothing removed when no show_ flag is set;     *)
(* otherwise the rows involving a party whose flag is set, and the rows    *)
(* involving none of the three parties                                     *)
PartyFilter(rows, show_pedestrian, show_bicycle, show_motorcycle) ==
    LET combined_condition(r) ==
            \/ Truthy(show_pedestrian) /\ r.AccidentInvolvingPedestrian = "true"
            \/ Truthy(show_bicycle) /\ r.AccidentInvolvingBicycle = "true"
            \/ Truthy(show_motorcycle) /\ r.AccidentInvolvingMotorcycle = "true"
        no_special_parties(r) ==
            /\ r.AccidentInvolvingPedestrian = "false"
            /\ r.AccidentInvolvingBicycle = "false"
            /\ r.AccidentInvolvingMotorcycle = "false"
    IN IF ~(Truthy(show_pedestrian) \/ Truthy(show_bicycle) \/ Truthy(show_motorcycle))
       THEN rows
       ELSE SelectSeq(rows, LAMBDA r : combined_condition(r) \/ no_special_parties(r))

(* the hour range with its end excluded *)
HourFilterEndExcluded(rows, hour_range) ==
    IF Truthy(hour_range)
    THEN LET start_hour == hour_range.items[1]
             end_hour == hour_range.items[2]
         IN SelectSeq(rows, LAMBDA r : r.AccidentHour >= start_hour
                                         /\ r.AccidentHour < end_hour)
    ELSE rows

(* Hour range filter: start_hour <= AccidentHour <= end_hour *)
HourFilter(rows, hour_range) ==
    IF Truthy(hour_range)
    THEN LET start_hour == hour_range.items[1]
             end_hour == hour_range.items[2]
         IN SelectSeq(rows, LAMBDA r : r.AccidentHour >= start_hour
                                         /\ r.AccidentHour <= end_hour)
    ELSE rows

(* the filters without the road type filter *)
FilteredRowsNoRoadType(rows, args) ==
    LET by_year == IsinFilter(rows, "AccidentYear", args.years)
        by_severity == IsinFilter(by_year, "AccidentSeverityCategory_en", args.severities)
        by_type == IsinFilter(by_severity, "AccidentType_en", args.accident_types)
        by_canton == IsinFilter(by_type, "CantonCode", args.cantons)
        by_party == PartyFilter(by_canton, args.show_pedestrian, args.show_bicycle,
                                args.show_motorcycle)
        by_month == IsinFilter(by_party, "AccidentMonth", args.months)
    IN HourFilter(by_month, args.hour_range)

(* the body of filter_data: the filters applied one after the other to a   *)
(* copy of df                                                              *)
FilteredRows(rows, args) ==
    LET by_year == IsinFilter(rows, "AccidentYear", args.years)
        by_severity == IsinFilter(by_year, "AccidentSeverityCategory_en", args.severities)
        by_type == IsinFilter(by_severity, "AccidentType_en", args.accident_types)
        by_road == IsinFilter(by_type, "RoadType_en", args.road_types)
        by_canton == IsinFilter(by_road, "CantonCode", args.cantons)
        by_party == PartyFilter(by_canton, args.show_pedestrian, args.show_bicycle,
                                args.show_motorcycle)
        by_month == IsinFilter(by_party, "AccidentMonth", args.months)
    IN HourFilter(by_month, args.hour_range)

(* The dashboard *)

PartyOptions == <<"Pedestrian", "Bicycle", "Motorcycle">>

PartyModes ==
    {"Only selected (exact)", "Any of selected (OR)", "Include all selected (AND)"}

(* the widgets' defaults: the most recent years, canton ZH, party Bicycle, *)
(* the first mode, no month, hours 0 to 23, nothing else chosen            *)
DefaultSidebar ==
    [selected_years |-> <<2022, 2023>>,
     selected_severities |-> <<>>,
     selected_accident_types |-> <<>>,
     selected_road_types |-> <<>>,
     selected_cantons |-> <<"ZH">>,
     selected_parties |-> <<"Bicycle">>,
     party_mode |-> "Only selected (exact)",
     selected_months |-> <<>>,
     selected_hours |-> <<0, 23>>]

(* the arguments of the dashboard's call, bound to the parameters of       *)
(* filter_data by position                                                 *)
AppFilterArgs(sel) ==
    LET positional == << List(sel.selected_years),
                         List(sel.selected_severities),
                         List(sel.selected_accident_types),
                         List(sel.selected_road_types),
                         List(sel.selected_cantons),
                         List(sel.selected_parties),
                         Str(sel.party_mode),
                         List(sel.selected_months),
                         Tuple(sel.selected_hours) >>
    IN [years |-> positional[1], severities |-> positional[2],
        accident_types |-> positional[3], road_types |-> positional[4],
        cantons |-> positional[5], show_pedestrian |-> positional[6],
        show_bicycle |-> positional[7], show_motorcycle |-> positional[8],
        months |-> positional[9], hour_range |-> None]

----------------------------------------------------------------------------
(* Inputs *)

(* Records at four sites of the plane: A = (0, 0); B = (3, 0) and          *)
(* C = (0, 4), both within 0.5 km of A but not of each other; D far away.  *)
GeneralPool ==
    { Row(LatBase,     LonBase,     "as1", "true",  "ZH", "Collision"),
      Row(LatBase,     LonBase,     "as3", "false", "BE", "Skidding"),
      Row(LatBase + 3, LonBase,     "as2", "true",  "ZH", "Skidding"),
      Row(LatBase,     LonBase + 4, "as4", "false", "BE", "Collision"),
      Row(LatBase + 9, LonBase + 9, "as1", "false", "BE", "Skidding") }

GeneralInputs == SeqsUpTo(GeneralPool, MaxRecords)

(* Records at A and B, and records whose latitude or longitude is missing *)
MissingPool ==
    { Row(LatBase,     LonBase, "as1", "true",  "ZH", "Collision"),
      Row(LatBase,     LonBase, "as3", "false", "BE", "Skidding"),
      Row(LatBase + 3, LonBase, "as2", "true",  "ZH", "Skidding"),
      Row(NaN,         LonBase, "as2", "false", "ZH", "Collision"),
      Row(LatBase,     NaN,     "as3", "true",  "BE", "Skidding") }

MissingInputs == SeqsUpTo(MissingPool, MaxRecords)

(* Records along a zigzag road: site k lies SiteStep millidegrees north of *)
(* site k - 1 and alternately SiteStep east or west of it, so neighbouring *)
(* sites are within 0.5 km of each other (but not within 0.3 km) and sites *)
(* two apart are not.  A data set holds up to MaxPerSite records per site, *)
(* in south-to-north or north-to-south order.                              *)
SiteRow(k) ==
    Row(LatBase + SiteStep * k, LonBase + SiteStep * (k % 2),
        <<"as1", "as2", "as3", "as4">>[(k % 4) + 1],
        IF k % 2 = 0 THEN "true" ELSE "false",
        IF k % 3 = 0 THEN "BE" ELSE "ZH",
        IF k % 2 = 0 THEN "Collision" ELSE "Skidding")

RECURSIVE SiteRows(_, _)
SiteRows(counts, k) ==
    IF k < 0 THEN <<>>
    ELSE SiteRows(counts, k - 1) \o Repeat(SiteRow(k), counts[k])

SouthToNorthInputs ==
    {SiteRows(c, NumSites - 1) : c \in [0..(NumSites - 1) -> 0..MaxPerSite]}

LineInputs ==
    SouthToNorthInputs \cup {Reverse(rows) : rows \in SouthToNorthInputs}

(* Six records in two groups: three records 0.47 km apart in a row (the    *)
(* middle one within 0.5 km of both ends, the ends not of each other) and  *)
(* three records at one place far from them.  Both groups have the same    *)
(* severity weight.  A data set is any selection of these records in any   *)
(* order.                                                                  *)
OrderPool ==
    { Row(LatBase,      LonBase,      "as1", "true",  "ZH", "Collision"),
      Row(LatBase + 3,  LonBase + 3,  "as2", "false", "ZH", "Skidding"),
      Row(LatBase + 6,  LonBase,      "as3", "true",  "BE", "Collision"),
      Row(LatBase + 30, LonBase + 30, "as2", "true",  "BE", "Skidding"),
      Row(LatBase + 30, LonBase + 30, "as2", "false", "ZH", "Collision"),
      Row(LatBase + 30, LonBase + 30, "as2", "false", "BE", "Collision") }

(* the sequences without repetition over S *)
Arrangements(S) ==
    UNION {{f \in [1..n -> S] : \A i, j \in 1..n : f[i] = f[j] => i = j} :
              n \in 0..Cardinality(S)}

OrderInputs == Arrangements(OrderPool)

(* the slider positions exercised, with 0 as the invalid one *)
EpsChoices == {0, 3, 5}

Init ==
    /\ df \in GeneralInputs
    /\ cluster = <<>>
    /\ eps_km = DefaultEpsKm
    /\ min_samples = DefaultMinSamples
    /\ blackspots_df = <<>>
    /\ status = "ready"
    /\ calls = 0
    /\ features = <<>>
    /\ sidebar = DefaultSidebar
    /\ filter_args = DefaultFilterArgs
    /\ filtered_df = <<>>

InitLine ==
    /\ df \in LineInputs
    /\ cluster = <<>>
    /\ eps_km = DefaultEpsKm
    /\ min_samples = DefaultMinSamples
    /\ blackspots_df = <<>>
    /\ status = "ready"
    /\ calls = 0
    /\ features = <<>>
    /\ sidebar = DefaultSidebar
    /\ filter_args = DefaultFilterArgs
    /\ filtered_df = <<>>

InitOrder ==
    /\ df \in OrderInputs
    /\ cluster = <<>>
    /\ eps_km = DefaultEpsKm
    /\ min_samples = DefaultMinSamples
    /\ blackspots_df = <<>>
    /\ status = "ready"
    /\ calls = 0
    /\ features = <<>>
    /\ sidebar = DefaultSidebar
    /\ filter_args = DefaultFilterArgs
    /\ filtered_df = <<>>

InitMissing ==
    /\ df \in MissingInputs
    /\ cluster = <<>>
    /\ eps_km = DefaultEpsKm
    /\ min_samples = DefaultMinSamples
    /\ blackspots_df = <<>>
    /\ status = "ready"
    /\ calls = 0
    /\ features = <<>>
    /\ sidebar = DefaultSidebar
    /\ filter_args = DefaultFilterArgs
    /\ filtered_df = <<>>

InitRerun ==
    /\ df \in SouthToNorthInputs
    /\ cluster = <<>>
    /\ eps_km = DefaultEpsKm
    /\ min_samples = DefaultMinSamples
    /\ blackspots_df = <<>>
    /\ status = "ready"
    /\ calls = 0
    /\ features = <<>>
    /\ sidebar = DefaultSidebar
    /\ filter_args = DefaultFilterArgs
    /\ filtered_df = <<>>

----------------------------------------------------------------------------
(* identify_blackspot_zones(df, eps_km, min_samples) *)

(* df.empty or len(df) < min_samples *)
TooFewOnlyEmpty(rows, m) == Len(rows) = 0

TooFew(rows, m) == Len(rows) = 0 \/ Len(rows) < m

(* the early return, after marking every record as noise *)
EarlyReturnAnnotating(eps, m) ==
    /\ status = "ready"
    /\ TooFew(df, m)
    /\ eps_km' = eps
    /\ min_samples' = m
    /\ cluster' = [i \in 1..Len(df) |-> NoiseLabel]
    /\ blackspots_df' = <<>>
    /\ status' = "returned"
    /\ calls' = calls + 1
    /\ UNCHANGED <<features, df, sidebar, filter_args, filtered_df>>

(* if df.empty or len(df) < min_samples: return pd.DataFrame() *)
EarlyReturn(eps, m) ==
    /\ status = "ready"
    /\ TooFew(df, m)
    /\ eps_km' = eps
    /\ min_samples' = m
    /\ blackspots_df' = <<>>
    /\ status' = "returned"
    /\ calls' = calls + 1
    /\ UNCHANGED <<features, df, cluster, sidebar, filter_args, filtered_df>>

(* DBSCAN rejects the parameters: the exception leaves the function *)
RaiseInvalidParameter(eps, m) ==
    /\ status = "ready"
    /\ ~TooFew(df, m)
    /\ ~ValidParams(eps, m)
    /\ eps_km' = eps
    /\ min_samples' = m
    /\ status' = "raised"
    /\ calls' = calls + 1
    /\ UNCHANGED <<features, df, cluster, blackspots_df, sidebar, filter_args, filtered_df>>

(* clustering, summaries and sort *)
ClusterAndSummarise(eps, m) ==
    /\ status = "ready"
    /\ ~TooFew(df, m)
    /\ ValidParams(eps, m)
    /\ AllFinite(Coords(df))
    /\ eps_km' = eps
    /\ min_samples' = m
    /\ cluster' = FitPredict(Coords(df), eps, m)
    /\ blackspots_df' = SortValuesDescending(Blackspots(df, cluster'))
    /\ status' = "returned"
    /\ calls' = calls + 1
    /\ UNCHANGED <<features, df, sidebar, filter_args, filtered_df>>

identify_blackspot_zones(eps, m) ==
    \/ EarlyReturn(eps, m)
    \/ RaiseInvalidParameter(eps, m)
    \/ ClusterAndSummarise(eps, m)

Next == \E eps \in EpsChoices, m \in 0..MaxMinSamples : identify_blackspot_zones(eps, m)

(* DBSCAN rejects a coordinate array that holds NaN: the exception leaves  *)
(* the function before df['cluster'] is assigned                           *)
RaiseValueError(eps, m) ==
    /\ status = "ready"
    /\ ~TooFew(df, m)
    /\ ValidParams(eps, m)
    /\ ~AllFinite(Coords(df))
    /\ eps_km' = eps
    /\ min_samples' = m
    /\ status' = "raised"
    /\ calls' = calls + 1
    /\ UNCHANGED <<features, df, cluster, blackspots_df, sidebar, filter_args, filtered_df>>

NextMissing ==
    \E eps \in EpsChoices, m \in 0..MaxMinSamples :
        identify_blackspot_zones(eps, m) \/ RaiseValueError(eps, m)

SpecMissing == InitMissing /\ [][NextMissing]_vars

----------------------------------------------------------------------------
(* A second call of identify_blackspot_zones with the same eps_km and      *)
(* min_samples on the same collection, which by now carries the 'cluster'  *)
(* column the first call stored (if that call got as far).                 *)

RerunEarlyReturn ==
    /\ calls = 1
    /\ TooFew(Annotated(df, cluster), min_samples)
    /\ blackspots_df' = <<>>
    /\ status' = "returned"
    /\ calls' = calls + 1
    /\ UNCHANGED <<features, df, cluster, eps_km, min_samples, sidebar, filter_args, filtered_df>>

RerunRaiseInvalidParameter ==
    /\ calls = 1
    /\ ~TooFew(Annotated(df, cluster), min_samples)
    /\ ~ValidParams(eps_km, min_samples)
    /\ status' = "raised"
    /\ calls' = calls + 1
    /\ UNCHANGED <<features, df, cluster, eps_km, min_samples, blackspots_df,
                   sidebar, filter_args, filtered_df>>

RerunClusterAndSummarise ==
    /\ calls = 1
    /\ ~TooFew(Annotated(df, cluster), min_samples)
    /\ ValidParams(eps_km, min_samples)
    /\ cluster' = FitPredict(Coords(Annotated(df, cluster)), eps_km, min_samples)
    /\ blackspots_df' = SortValuesDescending(Blackspots(Annotated(df, cluster'), cluster'))
    /\ status' = "returned"
    /\ calls' = calls + 1
    /\ UNCHANGED <<features, df, eps_km, min_samples, sidebar, filter_args, filtered_df>>

Rerun ==
    \/ RerunEarlyReturn
    \/ RerunRaiseInvalidParameter
    \/ RerunClusterAndSummarise

NextRerun == Next \/ Rerun

Spec == Init /\ [][Next]_vars

SpecRerun == InitRerun /\ [][NextRerun]_vars

SpecOrder == InitOrder /\ [][Next]_vars

SpecLine == InitLine /\ [][Next]_vars

----------------------------------------------------------------------------
(* Calls of filter_data: by a caller that names its arguments, and by the  *)
(* dashboard.                                                              *)

FilterRow(year, severity, type, road, canton, ped, bike, moto, month, hour) ==
    [AccidentYear |-> year,
     AccidentSeverityCategory_en |-> severity,
     AccidentType_en |-> type,
     RoadType_en |-> road,
     CantonCode |-> canton,
     AccidentInvolvingPedestrian |-> ped,
     AccidentInvolvingBicycle |-> bike,
     AccidentInvolvingMotorcycle |-> moto,
     AccidentMonth |-> month,
     AccidentHour |-> hour]

(* records with a bicycle only, pedestrian and bicycle, no party at all,   *)
(* a pedestrian only, a motorcycle only, and all three parties             *)
FilterPool ==
    { FilterRow(2023, "Accident with light injuries", "Collision", "Minor road",
                "ZH", "false", "true", "false", 6, 8),
      FilterRow(2023, "Accident with severe injuries", "Skidding", "Principal road",
                "ZH", "true", "true", "false", 6, 17),
      FilterRow(2022, "Accident with light injuries", "Collision", "Principal road",
                "BE", "false", "false", "false", 6, 0),
      FilterRow(2022, "Accident with fatalities", "Skidding", "Minor road",
                "ZH", "true", "false", "false", 12, 23),
      FilterRow(2023, "Accident with severe injuries", "Collision", "Minor road",
                "BE", "false", "false", "true", 1, 12),
      FilterRow(2022, "Accident with light injuries", "Skidding", "Principal road",
                "BE", "true", "true", "true", 1, 8) }

(* the DataFrame of the rows: each row under its index label *)
DataFrame(rows) == [i \in 1..Len(rows) |-> [index |-> i - 1] @@ rows[i]]

FilterInputs == {DataFrame(rows) : rows \in SeqsUpTo(FilterPool, MaxFilterRecords)}

YearChoices == {List(<<>>), List(<<2023>>), List(<<2022, 2023>>)}
SeverityChoices ==
    {List(<<>>), List(<<"Accident with light injuries">>),
     List(<<"Accident with light injuries", "Accident with severe injuries">>)}
TypeChoices == {List(<<>>), List(<<"Collision">>)}
RoadChoices == {List(<<>>), List(<<"Minor road">>)}
CantonChoices == {List(<<>>), List(<<"ZH">>), List(<<"BE", "ZH">>)}
MonthChoices == {List(<<>>), List(<<6>>), List(<<1, 12>>)}
HourChoices == {Tuple(<<0, 23>>), Tuple(<<8, 17>>), Tuple(<<0, 0>>), Tuple(<<17, 8>>)}

(* the argument records of A with one more argument given by the caller *)
OneMoreGiven(A) ==
    A \cup {[a EXCEPT !.years = v] : a \in A, v \in YearChoices}
      \cup {[a EXCEPT !.severities = v] : a \in A, v \in SeverityChoices}
      \cup {[a EXCEPT !.accident_types = v] : a \in A, v \in TypeChoices}
      \cup {[a EXCEPT !.road_types = v] : a \in A, v \in RoadChoices}
      \cup {[a EXCEPT !.cantons = v] : a \in A, v \in CantonChoices}
      \cup {[a EXCEPT !.show_pedestrian = Bool(p[1]), !.show_bicycle = Bool(p[2]),
                      !.show_motorcycle = Bool(p[3])] :
               a \in A, p \in BOOLEAN \X BOOLEAN \X BOOLEAN}
      \cup {[a EXCEPT !.months = v] : a \in A, v \in MonthChoices}
      \cup {[a EXCEPT !.hour_range = v] : a \in A, v \in HourChoices}

(* the calls made: the defaults, with up to two of the criteria given *)
ArgChoices == OneMoreGiven(OneMoreGiven({DefaultFilterArgs}))

(* the selections made in the sidebar *)
SidebarChoices ==
    [selected_years : {<<2022, 2023>>, <<2023>>},
     selected_severities : {<<>>},
     selected_accident_types : {<<>>},
     selected_road_types : {<<>>},
     selected_cantons : {<<"ZH">>, <<>>},
     selected_parties : {SelectSeq(PartyOptions, LAMBDA q : q \in S) :
                            S \in SUBSET Range(PartyOptions)},
     party_mode : PartyModes,
     selected_months : {<<>>, <<6>>},
     selected_hours : {<<0, 23>>, <<6, 23>>, <<1, 12>>, <<8, 17>>}]

InitFilter ==
    /\ df \in FilterInputs
    /\ cluster = <<>>
    /\ eps_km = DefaultEpsKm
    /\ min_samples = DefaultMinSamples
    /\ blackspots_df = <<>>
    /\ status = "ready"
    /\ calls = 0
    /\ features = <<>>
    /\ sidebar = DefaultSidebar
    /\ filter_args = DefaultFilterArgs
    /\ filtered_df = <<>>

(* the filters run on df itself *)
filter_data_in_place(args) ==
    /\ status = "ready"
    /\ filter_args' = args
    /\ filtered_df' = FilteredRows(df, args)
    /\ df' = FilteredRows(df, args)
    /\ status' = "filtered"
    /\ UNCHANGED <<features, cluster, eps_km, min_samples, blackspots_df, calls, sidebar>>

(* filter_data(df, ...): the filters run on a copy of df *)
filter_data(args) ==
    /\ status = "ready"
    /\ filter_args' = args
    /\ filtered_df' = FilteredRows(df, args)
    /\ status' = "filtered"
    /\ UNCHANGED <<features, df, cluster, eps_km, min_samples, blackspots_df, calls, sidebar>>

(* the dashboard reads the sidebar and calls filter_data *)
ApplyFilters(sel) ==
    /\ status = "ready"
    /\ sidebar' = sel
    /\ filter_args' = AppFilterArgs(sel)
    /\ filtered_df' = FilteredRows(df, AppFilterArgs(sel))
    /\ status' = "displayed"
    /\ UNCHANGED <<features, df, cluster, eps_km, min_samples, blackspots_df, calls>>

NextFilter ==
    \/ \E args \in ArgChoices : filter_data(args)
    \/ \E sel \in SidebarChoices : ApplyFilters(sel)

SpecFilter == InitFilter /\ [][NextFilter]_vars

----------------------------------------------------------------------------
(* load_accident_data: the GeoJSON features made into a DataFrame *)

(* the bounds of the coordinate check, in millidegrees *)
LatMin == 45000
LatMax == 48000
LonMin == 5000
LonMax == 11000

(* a feature: its geometry's coordinates (longitude first; NaN for null)   *)
(* and the accident id of its properties                                   *)
Feature(coordinates, uid) ==
    [geometry |-> [coordinates |-> coordinates], properties |-> [AccidentUID |-> uid]]

(* coordinate lists: too short, well inside, with an altitude, with a      *)
(* missing value, on the corners of the box, and just outside each side    *)
CoordinateChoices ==
    { <<>>, <<8540>>, <<8540, 47370>>, <<8540, 47370, 400>>,
      <<NaN, 47370>>, <<8540, NaN>>,
      <<LonMin, LatMin>>, <<LonMax, LatMax>>,
      <<LonMin - 1, LatMin>>, <<LonMax + 1, LatMax>>,
      <<LonMin, LatMin - 1>>, <<LonMax, LatMax + 1>> }

FeatureInputs ==
    {[k \in 1..Len(cs) |-> Feature(cs[k], k)] : cs \in SeqsUpTo(CoordinateChoices, MaxFeatures)}

(* the loop over the features: a row per feature with two coordinates or   *)
(* more                                                                    *)
RECURSIVE FeatureRows(_)
FeatureRows(fs) ==
    IF fs = <<>> THEN <<>>
    ELSE LET feature == Head(fs)
             coordinates == feature.geometry.coordinates
         IN IF Len(coordinates) >= 2
            THEN <<[longitude |-> coordinates[1], latitude |-> coordinates[2]]
                       @@ feature.properties>> \o FeatureRows(Tail(fs))
            ELSE FeatureRows(Tail(fs))

(* df.dropna(subset=['longitude', 'latitude']) *)
DropNa(rows) == SelectSeq(rows, LAMBDA r : r.longitude # NaN /\ r.latitude # NaN)

(* the coordinate check on the latitude alone *)
InSwitzerlandLatitudeOnly(rows) ==
    SelectSeq(rows, LAMBDA r : r.latitude >= LatMin /\ r.latitude <= LatMax)

(* df[latitude.between(45.0, 48.0) & longitude.between(5.0, 11.0)] *)
InSwitzerland(rows) ==
    SelectSeq(rows, LAMBDA r : /\ r.latitude >= LatMin /\ r.latitude <= LatMax
                               /\ r.longitude >= LonMin /\ r.longitude <= LonMax)

InitLoad ==
    /\ features \in FeatureInputs
    /\ df = <<>>
    /\ cluster = <<>>
    /\ eps_km = DefaultEpsKm
    /\ min_samples = DefaultMinSamples
    /\ blackspots_df = <<>>
    /\ status = "ready"
    /\ calls = 0
    /\ sidebar = DefaultSidebar
    /\ filter_args = DefaultFilterArgs
    /\ filtered_df = <<>>

(* no feature, or no row made from the features: an empty DataFrame *)
LoadNoRows ==
    /\ status = "ready"
    /\ FeatureRows(features) = <<>>
    /\ df' = <<>>
    /\ status' = "loaded"
    /\ UNCHANGED <<features, cluster, eps_km, min_samples, blackspots_df, calls,
                   sidebar, filter_args, filtered_df>>

(* the rows cleaned and checked; an empty DataFrame when none is left *)
LoadRows ==
    /\ status = "ready"
    /\ FeatureRows(features) # <<>>
    /\ df' = InSwitzerland(DropNa(FeatureRows(features)))
    /\ status' = "loaded"
    /\ UNCHANGED <<features, cluster, eps_km, min_samples, blackspots_df, calls,
                   sidebar, filter_args, filtered_df>>

load_accident_data == LoadNoRows \/ LoadRows

NextLoad == load_accident_data

SpecLoad == InitLoad /\ [][NextLoad]_vars

----------------------------------------------------------------------------
(* Vocabulary of the properties, stated on the state alone *)

Idx == 1..Len(df)

(* the call ran the clustering: df carries the 'cluster' column *)
Clustered == status = "returned" /\ Len(cluster) = Len(df) /\ df # <<>>

(* records i and j are at most eps_km / 111 degrees apart *)
Near(i, j) ==
    LET dlat == df[i].latitude - df[j].latitude
        dlon == df[i].longitude - df[j].longitude
    IN 12321 * (dlat * dlat + dlon * dlon) <= 10000 * eps_km * eps_km

Members(c) == {i \in Idx : cluster[i] = c}

NoiseRecords == {i \in Idx : cluster[i] = NoiseLabel}

Summaries == Range(blackspots_df)

(* the members of M whose field f has value v *)
With(M, f, v) == {i \in M : df[i][f] = v}

RECURSIVE SumOver(_, _)
SumOver(M, f) ==
    IF M = {} THEN 0
    ELSE LET i == CHOOSE x \in M : TRUE IN df[i][f] + SumOver(M \ {i}, f)

(* the records reachable from those of S by steps of at most eps_degrees   *)
(* that stay inside M                                                      *)
RECURSIVE ChainedWithin(_, _)
ChainedWithin(S, M) ==
    LET more == {j \in M \ S : \E i \in S : Near(i, j)}
    IN IF more = {} THEN S ELSE ChainedWithin(S \cup more, M)

----------------------------------------------------------------------------
(* C1: in every returned summary, risk_score is exactly                    *)
(* 5 * fatal_accidents + 3 * severe_accidents + 1 * light_accidents, the   *)
(* three counts being the numbers of cluster members of severity as1, as2  *)
(* and as3.                                                                *)
C1_RiskScoreFormula ==
    status = "returned" =>
        \A s \in Summaries :
            /\ s.fatal_accidents =
                   Cardinality(With(Members(s.cluster_id), "AccidentSeverityCategory", "as1"))
            /\ s.severe_accidents =
                   Cardinality(With(Members(s.cluster_id), "AccidentSeverityCategory", "as2"))
            /\ s.light_accidents =
                   Cardinality(With(Members(s.cluster_id), "AccidentSeverityCategory", "as3"))
            /\ s.risk_score =
                   5 * s.fatal_accidents + 3 * s.severe_accidents + 1 * s.light_accidents

(* a summary of a cluster holding fatal, severe and light accidents, with  *)
(* more fatal than severe ones                                             *)
C1_Witness ==
    /\ status = "returned"
    /\ \E s \in Summaries :
           /\ s.fatal_accidents > s.severe_accidents
           /\ s.severe_accidents > 0
           /\ s.light_accidents > 0

(* C2: the returned summaries are in non-increasing order of risk_score.   *)
C2_NonIncreasingRisk ==
    status = "returned" =>
        \A k \in 1..(Len(blackspots_df) - 1) :
            blackspots_df[k].risk_score >= blackspots_df[k + 1].risk_score

(* three or more summaries of which the cluster found first is not the     *)
(* riskiest, so that the sort has moved rows                               *)
C2_Witness ==
    /\ status = "returned"
    /\ Len(blackspots_df) >= 3
    /\ blackspots_df[1].risk_score > blackspots_df[Len(blackspots_df)].risk_score
    /\ blackspots_df[1].cluster_id # cluster[1]
    /\ cluster[1] # NoiseLabel

(* C3: on an empty input, or one with fewer records than min_samples, the  *)
(* call returns an empty result and raises no error, whatever eps_km is.   *)
C3_EmptyOrUndersized ==
    (status # "ready" /\ (Len(df) = 0 \/ Len(df) < min_samples)) =>
        (status = "returned" /\ blackspots_df = <<>>)

(* an undersized, non-empty input passed with an eps_km that the           *)
(* clustering itself would reject                                          *)
C3_Witness ==
    /\ status = "returned"
    /\ Len(df) > 0
    /\ Len(df) < min_samples
    /\ eps_km <= 0
    /\ blackspots_df = <<>>

(* C4: noise records are excluded from all summaries: there is no summary  *)
(* for the noise label and no noise record is counted in any summary's     *)
(* member count, severity counts, bicycle count or centroid.               *)
C4_NoiseExcluded ==
    Clustered =>
        \A s \in Summaries :
            LET kept == Members(s.cluster_id) \ NoiseRecords IN
            /\ s.cluster_id # NoiseLabel
            /\ s.accident_count = Cardinality(kept)
            /\ s.fatal_accidents + s.severe_accidents + s.light_accidents =
                   Cardinality({i \in kept :
                       df[i].AccidentSeverityCategory \in {"as1", "as2", "as3"}})
            /\ s.bicycle_accidents =
                   Cardinality(With(kept, "AccidentInvolvingBicycle", "true"))
            /\ s.center_lat = [sum |-> SumOver(kept, "latitude"), count |-> Cardinality(kept)]
            /\ s.center_lon = [sum |-> SumOver(kept, "longitude"), count |-> Cardinality(kept)]

(* a clustering with a summary and with noise records, the first record    *)
(* being noise and a bicycle accident of severity as1, as2 or as3          *)
C4_Witness ==
    /\ Clustered
    /\ blackspots_df # <<>>
    /\ cluster[1] = NoiseLabel
    /\ df[1].AccidentInvolvingBicycle = "true"
    /\ df[1].AccidentSeverityCategory # "as4"

(* C5 as stated: a record is assigned to a cluster exactly when at least   *)
(* min_samples OTHER records lie within eps_degrees of it, or it is within *)
(* eps_degrees of such a record; every other record is noise.              *)
DenseWithoutSelf(i) ==
    Cardinality({j \in Idx \ {i} : Near(i, j)}) >= min_samples

C5_CoreCountsOthersOnly ==
    Clustered =>
        \A i \in Idx :
            cluster[i] # NoiseLabel <=>
                (DenseWithoutSelf(i) \/ \E j \in Idx : Near(i, j) /\ DenseWithoutSelf(j))

(* C5 amended: a record is assigned to a cluster exactly when at least     *)
(* min_samples records, ITSELF INCLUDED, lie within eps_degrees of it, or  *)
(* it is within eps_degrees of such a record; every other record is noise. *)
Dense(i) == Cardinality({j \in Idx : Near(i, j)}) >= min_samples

C5_CoreCountsItself ==
    Clustered =>
        \A i \in Idx :
            cluster[i] # NoiseLabel <=>
                (Dense(i) \/ \E j \in Idx : Near(i, j) /\ Dense(j))

(* a clustering with a dense record that has only min_samples - 1 others   *)
(* around it, a clustered record that is not dense, and a noise record     *)
C5_Witness ==
    /\ Clustered
    /\ \E i \in Idx : Dense(i) /\ ~DenseWithoutSelf(i) /\ cluster[i] # NoiseLabel
    /\ \E i \in Idx : ~Dense(i) /\ cluster[i] # NoiseLabel
    /\ \E i \in Idx : cluster[i] = NoiseLabel

(* C6: any two members of a cluster are linked by a chain of members of    *)
(* that cluster with consecutive members at most eps_degrees apart, and in *)
(* a cluster of more than one member no member is farther than eps_degrees *)
(* from every other member.                                                *)
C6_ClustersAreChained ==
    Clustered =>
        \A i \in Idx \ NoiseRecords :
            LET M == Members(cluster[i]) IN
            /\ ChainedWithin({i}, M) = M
            /\ Cardinality(M) > 1 => \E j \in M \ {i} : Near(i, j)

(* a cluster with two members farther apart than eps_degrees, linked only  *)
(* through other members                                                   *)
C6_Witness ==
    /\ Clustered
    /\ \E i, j \in Idx :
           /\ cluster[i] # NoiseLabel
           /\ cluster[i] = cluster[j]
           /\ ~Near(i, j)

(* C7: min_samples is the minimum cluster size: every returned summary has *)
(* accident_count >= min_samples, for every positive min_samples.          *)
C7_MinClusterSize ==
    (status = "returned" /\ min_samples >= 1) =>
        \A s \in Summaries : s.accident_count >= min_samples

(* C8 as stated: a group of n >= min_samples records pairwise within       *)
(* eps_degrees, plus records each farther than eps_degrees from every      *)
(* other record, gives exactly one summary, with accident_count = n        *)
(* (eps_km and min_samples positive).                                      *)
Isolated == {i \in Idx : \A j \in Idx \ {i} : ~Near(i, j)}

(* G is such a group and every record outside G is isolated *)
GroupAndIsolated(G) ==
    /\ G # {}
    /\ Cardinality(G) >= min_samples
    /\ \A i, j \in G : Near(i, j)
    /\ Idx \ G \subseteq Isolated

(* the only sets that can be such a group: the records that are not        *)
(* isolated, or a single record                                            *)
GroupCandidates == {Idx \ Isolated} \cup {{i} : i \in Idx}

C8_OneGroupOneSummary ==
    (status # "ready" /\ eps_km > 0 /\ min_samples >= 1) =>
        \A G \in GroupCandidates :
            GroupAndIsolated(G) =>
                /\ status = "returned"
                /\ Len(blackspots_df) = 1
                /\ blackspots_df[1].accident_count = Cardinality(G)

(* C8 amended: the same, for min_samples >= 2 (with min_samples = 1 every  *)
(* isolated record is a cluster of its own).                               *)
C8_OneGroupOneSummaryMin2 ==
    (status # "ready" /\ eps_km > 0 /\ min_samples >= 2) =>
        \A G \in GroupCandidates :
            GroupAndIsolated(G) =>
                /\ status = "returned"
                /\ Len(blackspots_df) = 1
                /\ blackspots_df[1].accident_count = Cardinality(G)
                /\ \A i \in Idx \ G : cluster[i] = NoiseLabel

(* a group of exactly min_samples >= 2 records at two different places,    *)
(* with an isolated record before it in the data                           *)
C8_Witness ==
    /\ status = "returned"
    /\ eps_km > 0
    /\ min_samples >= 2
    /\ LET G == Idx \ Isolated IN
       /\ GroupAndIsolated(G)
       /\ Cardinality(G) = min_samples
       /\ \E i, j \in G : df[i].latitude # df[j].latitude
       /\ 1 \in Isolated
    /\ Len(blackspots_df) = 1

(* C9: there is exactly one summary per non-noise cluster, and in each     *)
(* summary accident_count is the number of records assigned to the         *)
(* cluster, the fatal, severe and light counts are the numbers of its      *)
(* members of severity as1, as2 and as3, and bicycle_accidents is the      *)
(* number of its members whose bicycle flag is 'true'.                     *)
ClusterLabels == {cluster[i] : i \in Idx} \ {NoiseLabel}

C9_OneSummaryPerCluster ==
    Clustered =>
        /\ {s.cluster_id : s \in Summaries} = ClusterLabels
        /\ Len(blackspots_df) = Cardinality(ClusterLabels)
        /\ \A s \in Summaries :
               LET M == Members(s.cluster_id) IN
               /\ s.accident_count = Cardinality(M)
               /\ s.fatal_accidents =
                      Cardinality(With(M, "AccidentSeverityCategory", "as1"))
               /\ s.severe_accidents =
                      Cardinality(With(M, "AccidentSeverityCategory", "as2"))
               /\ s.light_accidents =
                      Cardinality(With(M, "AccidentSeverityCategory", "as3"))
               /\ s.bicycle_accidents =
                      Cardinality(With(M, "AccidentInvolvingBicycle", "true"))

(* two summaries of different size, one of a cluster of records with and   *)
(* without a bicycle                                                       *)
C9_Witness ==
    /\ Clustered
    /\ Len(blackspots_df) >= 2
    /\ blackspots_df[1].accident_count # blackspots_df[2].accident_count
    /\ \E s \in Summaries :
           s.bicycle_accidents > 0 /\ s.bicycle_accidents < s.accident_count

(* C10: every record of the clustered collection has exactly one           *)
(* assignment, a non-negative integer or the noise marker -1, so the       *)
(* member sets of different summaries are disjoint and the accident_count  *)
(* values of all summaries add up to the number of non-noise records.      *)
C10_AssignmentPartition ==
    Clustered =>
        /\ Len(cluster) = Len(df)
        /\ \A i \in Idx : cluster[i] \in Nat \/ cluster[i] = 0 - 1
        /\ \A j, k \in 1..Len(blackspots_df) :
               j # k => Members(blackspots_df[j].cluster_id)
                            \cap Members(blackspots_df[k].cluster_id) = {}
        /\ SumSeq([k \in 1..Len(blackspots_df) |-> blackspots_df[k].accident_count])
               = Cardinality(Idx \ NoiseRecords)

(* three clusters and noise in one data set *)
C10_Witness ==
    /\ Clustered
    /\ Len(blackspots_df) >= 3
    /\ NoiseRecords # {}

----------------------------------------------------------------------------
(* C11: a second run of identify_blackspot_zones with the same records,    *)
(* eps_km and min_samples, given the collection as the first run left it   *)
(* (annotated with the cluster column), ends as the first did and yields   *)
(* the same cluster membership and the same summaries, risk scores         *)
(* included.                                                               *)
C11_RerunIdentical ==
    [][calls' = 2 =>
          /\ status' = status
          /\ cluster' = cluster
          /\ blackspots_df' = blackspots_df]_vars

(* a second run over two clusters, one of which lost a record within       *)
(* eps_degrees of its members to the other                                 *)
C11_Witness ==
    /\ calls = 2
    /\ Clustered
    /\ Len(blackspots_df) >= 2
    /\ \E i, j \in Idx :
           /\ Near(i, j)
           /\ cluster[i] # NoiseLabel
           /\ cluster[j] # NoiseLabel
           /\ cluster[i] # cluster[j]

(* C12: the sort by risk score is stable: summaries of equal risk_score    *)
(* are returned in the order in which the clustering discovered their      *)
(* clusters, that is in ascending order of cluster identifier.             *)
C12_TiesInDiscoveryOrder ==
    status = "returned" =>
        \A k \in 1..(Len(blackspots_df) - 1) :
            blackspots_df[k].risk_score = blackspots_df[k + 1].risk_score =>
                blackspots_df[k].cluster_id < blackspots_df[k + 1].cluster_id

(* the values of field f that are most frequent among the records of M *)
MostFrequent(M, f) ==
    {v \in {df[i][f] : i \in M} :
        \A w \in {df[i][f] : i \in M} :
            Cardinality(With(M, f, w)) <= Cardinality(With(M, f, v))}

(* the position in df of the first record of M whose field f is v *)
FirstOccurrence(M, f, v) ==
    CHOOSE i \in With(M, f, v) : \A j \in With(M, f, v) : i <= j

(* v = w or v comes before w in the sorted order of strings *)
SortsNotAfter(v, w) ==
    \/ v = w
    \/ <<v, w>> \in {<<"BE", "ZH">>, <<"Collision", "Skidding">>}

(* C13 as stated: the canton and the accident type of a summary are values *)
(* of maximal frequency among the members of its cluster, and of the       *)
(* values that tie the one met first among the members is reported.        *)
C13_ModeTiesFirstEncountered ==
    Clustered =>
        \A b \in Summaries :
            LET M == Members(b.cluster_id) IN
            /\ b.canton \in MostFrequent(M, "CantonCode")
            /\ \A v \in MostFrequent(M, "CantonCode") :
                   FirstOccurrence(M, "CantonCode", b.canton)
                       <= FirstOccurrence(M, "CantonCode", v)
            /\ b.most_common_type \in MostFrequent(M, "AccidentType_en")
            /\ \A v \in MostFrequent(M, "AccidentType_en") :
                   FirstOccurrence(M, "AccidentType_en", b.most_common_type)
                       <= FirstOccurrence(M, "AccidentType_en", v)

(* C13 amended: the canton and the accident type of a summary are values   *)
(* of maximal frequency among the members of its cluster, and of the       *)
(* values that tie the first in sorted order is reported.                  *)
C13_ModeTiesSortedFirst ==
    Clustered =>
        \A b \in Summaries :
            LET M == Members(b.cluster_id) IN
            /\ b.canton \in MostFrequent(M, "CantonCode")
            /\ \A v \in MostFrequent(M, "CantonCode") : SortsNotAfter(b.canton, v)
            /\ b.most_common_type \in MostFrequent(M, "AccidentType_en")
            /\ \A v \in MostFrequent(M, "AccidentType_en") :
                   SortsNotAfter(b.most_common_type, v)

(* a cluster whose cantons tie, the one met first not the one reported,    *)
(* and a cluster with one canton more frequent than the other              *)
C13_Witness ==
    /\ Clustered
    /\ \E b \in Summaries :
           LET M == Members(b.cluster_id) IN
           /\ Cardinality(MostFrequent(M, "CantonCode")) = 2
           /\ df[CHOOSE i \in M : \A j \in M : i <= j].CantonCode # b.canton
    /\ \E b \in Summaries :
           LET M == Members(b.cluster_id) IN
           /\ Cardinality(MostFrequent(M, "CantonCode")) = 1
           /\ Cardinality({df[i].CantonCode : i \in M}) = 2

----------------------------------------------------------------------------
(* Vocabulary of the filter properties *)

(* filter_data has returned *)
Filtered == status \in {"filtered", "displayed"}

(* record i of df is in the returned collection *)
Kept(i) == \E k \in 1..Len(filtered_df) : filtered_df[k].index = df[i].index

(* the column each categorical criterion tests *)
CategoricalColumn ==
    [years |-> "AccidentYear",
     severities |-> "AccidentSeverityCategory_en",
     accident_types |-> "AccidentType_en",
     road_types |-> "RoadType_en",
     cantons |-> "CantonCode",
     months |-> "AccidentMonth"]

Categorical == DOMAIN CategoricalColumn

Criteria == Categorical \cup {"party", "hour_range"}

Parties == {"Pedestrian", "Bicycle", "Motorcycle"}

PartyColumn ==
    [Pedestrian |-> "AccidentInvolvingPedestrian",
     Bicycle |-> "AccidentInvolvingBicycle",
     Motorcycle |-> "AccidentInvolvingMotorcycle"]

PartyFlag ==
    [Pedestrian |-> "show_pedestrian",
     Bicycle |-> "show_bicycle",
     Motorcycle |-> "show_motorcycle"]

(* argument v is unspecified, empty or False *)
Unspecified(v) ==
    \/ v.type = "NoneType"
    \/ v.type = "bool" /\ ~v.b
    \/ v.type \in {"list", "tuple", "str"} /\ Len(v.items) = 0

Elements(v) == {v.items[k] : k \in 1..Len(v.items)}

Involves(i, party) == df[i][PartyColumn[party]] = "true"

InvolvesNoParty(i) == \A party \in Parties : df[i][PartyColumn[party]] = "false"

(* the parties whose show_ flag is set in the call *)
Shown == {party \in Parties : ~Unspecified(filter_args[PartyFlag[party]])}

(* record i of df satisfies criterion c of the call *)
Satisfies(i, c) ==
    IF c \in Categorical
    THEN \/ Unspecified(filter_args[c])
         \/ df[i][CategoricalColumn[c]] \in Elements(filter_args[c])
    ELSE IF c = "hour_range"
    THEN \/ Unspecified(filter_args.hour_range)
         \/ /\ filter_args.hour_range.items[1] <= df[i].AccidentHour
            /\ df[i].AccidentHour <= filter_args.hour_range.items[2]
    ELSE \/ Shown = {}
         \/ \E party \in Shown : Involves(i, party)
         \/ InvolvesNoParty(i)

SatisfiesAll(i) == \A c \in Criteria : Satisfies(i, c)

SatisfiesOthers(i, c) == \A d \in Criteria \ {c} : Satisfies(i, d)

----------------------------------------------------------------------------
(* C14: filter_data returns exactly the input records that satisfy all     *)
(* active criteria at once: a record failing one of them is absent, a      *)
(* record satisfying all of them is present, once and in the input order,  *)
(* and each returned record is unchanged in all its fields.                *)
C14_ExactlyTheSatisfying ==
    Filtered =>
        /\ \A k \in 1..Len(filtered_df) :
               \E i \in Idx : filtered_df[k] = df[i] /\ SatisfiesAll(i)
        /\ \A i \in Idx : SatisfiesAll(i) => Kept(i)
        /\ \A k, l \in 1..Len(filtered_df) :
               k < l => filtered_df[k].index < filtered_df[l].index

(* two records, three active criteria: one record satisfies them all, the  *)
(* other satisfies two of them and fails the third                         *)
C14_Witness ==
    /\ status = "filtered"
    /\ Cardinality({c \in Criteria \ {"party"} : ~Unspecified(filter_args[c])}) = 2
    /\ Shown # {}
    /\ \E i, j \in Idx :
           /\ Kept(i)
           /\ ~Kept(j)
           /\ Cardinality({c \in Criteria : ~Satisfies(j, c)}) = 1

(* C15: for each categorical criterion (years, severities, accident_types, *)
(* road_types, cantons, months): an empty or unspecified set removes no    *)
(* record, and with a non-empty set a record passes the criterion if and   *)
(* only if its value is a member of the set.                               *)
C15_CategoricalMembership ==
    Filtered =>
        \A c \in Categorical :
            \A i \in Idx :
                SatisfiesOthers(i, c) =>
                    (Kept(i) <=>
                        \/ filter_args[c].type = "NoneType"
                        \/ Elements(filter_args[c]) = {}
                        \/ df[i][CategoricalColumn[c]] \in Elements(filter_args[c]))

(* one criterion given as an empty list and one as a non-empty list, a     *)
(* record whose value is in the list kept and one whose value is not       *)
(* removed                                                                 *)
C15_Witness ==
    /\ status = "filtered"
    /\ \E c, d \in Categorical :
           /\ filter_args[c].type = "list" /\ Elements(filter_args[c]) = {}
           /\ Elements(filter_args[d]) # {}
           /\ \E i, j \in Idx :
                  /\ Kept(i)
                  /\ df[i][CategoricalColumn[d]] \in Elements(filter_args[d])
                  /\ ~Kept(j)
                  /\ df[j][CategoricalColumn[d]] \notin Elements(filter_args[d])

(* C16: the hour range is inclusive at both ends: with                     *)
(* hour_range = (start, end) a record passes if and only if                *)
(* start <= AccidentHour <= end.                                           *)
C16_HourRangeInclusive ==
    Filtered /\ filter_args.hour_range.type = "tuple" =>
        \A i \in Idx :
            SatisfiesOthers(i, "hour_range") =>
                (Kept(i) <=>
                    /\ filter_args.hour_range.items[1] <= df[i].AccidentHour
                    /\ df[i].AccidentHour <= filter_args.hour_range.items[2])

(* a record at the start hour and a record at the end hour, both kept *)
C16_Witness ==
    /\ status = "filtered"
    /\ filter_args.hour_range.type = "tuple"
    /\ filter_args.hour_range.items[1] < filter_args.hour_range.items[2]
    /\ \E i, j \in Idx :
           /\ Kept(i) /\ df[i].AccidentHour = filter_args.hour_range.items[1]
           /\ Kept(j) /\ df[j].AccidentHour = filter_args.hour_range.items[2]

(* the parties selected in the sidebar *)
Selected == Range(sidebar.selected_parties)

(* C17: in mode "exact" the dashboard's filter returns only records whose  *)
(* party flags match the selected set exactly: with selection {Bicycle}    *)
(* every returned record has bicycle true, pedestrian false and motorcycle *)
(* false, and a record involving none of the three is not returned.        *)
C17_ExactMode ==
    /\ status = "displayed"
    /\ sidebar.party_mode = "Only selected (exact)"
    /\ Selected # {}
    => \A i \in Idx :
           Kept(i) => \A party \in Parties : Involves(i, party) <=> party \in Selected

(* C18: in mode "any-of (OR)" with at least one party selected, a record   *)
(* passes the party criterion if and only if it involves at least one      *)
(* selected party.                                                         *)
C18_AnyOfMode ==
    /\ status = "displayed"
    /\ sidebar.party_mode = "Any of selected (OR)"
    /\ Selected # {}
    => \A i \in Idx :
           SatisfiesOthers(i, "party") =>
               (Kept(i) <=> \E party \in Selected : Involves(i, party))

(* C19: in mode "all-of (AND)" a record passes the party criterion if and  *)
(* only if it involves every selected party, whatever other parties it     *)
(* involves.                                                               *)
C19_AllOfMode ==
    /\ status = "displayed"
    /\ sidebar.party_mode = "Include all selected (AND)"
    => \A i \in Idx :
           SatisfiesOthers(i, "party") =>
               (Kept(i) <=> \A party \in Selected : Involves(i, party))

(* C20: when none of show_pedestrian, show_bicycle and show_motorcycle is  *)
(* set, the party criterion of filter_data removes no record, whatever the *)
(* records' party flags are.                                               *)
C20_NoPartyNoOp ==
    Filtered /\ Shown = {} =>
        \A i \in Idx : SatisfiesOthers(i, "party") => Kept(i)

(* no flag set, a record involving a party and a record involving none     *)
(* both returned                                                           *)
C20_Witness ==
    /\ status = "filtered"
    /\ Shown = {}
    /\ \E i, j \in Idx :
           /\ Kept(i) /\ ~InvolvesNoParty(i)
           /\ Kept(j) /\ InvolvesNoParty(j)

----------------------------------------------------------------------------
(* C21: filter_data has no side effects: after any call, with any          *)
(* criteria, the caller's collection holds the same records with the same  *)
(* field values as before, and an empty result is returned as a normal     *)
(* value, not as an error.                                                 *)
C21_NoSideEffects ==
    [][status = "ready" /\ status' # "ready" =>
          /\ df' = df
          /\ status' \in {"filtered", "displayed"}
          /\ cluster' = cluster]_vars

(* a call that removed every record of a non-empty collection *)
C21_Witness ==
    /\ status = "filtered"
    /\ Len(df) = 2
    /\ filtered_df = <<>>

----------------------------------------------------------------------------
(* C22: when identify_blackspot_zones clusters (the input has at least     *)
(* min_samples records) it stores a cluster assignment for each record in  *)
(* place on the caller's collection and changes nothing else in it: no     *)
(* record added, removed or reordered, no other field altered.  When it    *)
(* returns early on an empty or undersized input the collection is left    *)
(* entirely unchanged.                                                     *)
C22_InPlaceAnnotationOnly ==
    [][status = "ready" /\ status' = "returned" =>
          /\ df' = df
          /\ IF df = <<>> \/ Len(df) < min_samples'
             THEN cluster' = cluster
             ELSE /\ DOMAIN cluster' = DOMAIN df
                  /\ \A i \in DOMAIN df : cluster'[i] \in NoiseLabel..(Len(df) - 1)]_vars

(* a collection annotated by the call, with a noise record and a           *)
(* clustered record                                                        *)
C22_Witness ==
    /\ Clustered
    /\ calls = 1
    /\ \E i, j \in Idx : cluster[i] = NoiseLabel /\ cluster[j] = 0

----------------------------------------------------------------------------
(* record i has its latitude and its longitude *)
HasCoordinates(i) == df[i].latitude >= 0 /\ df[i].longitude >= 0

(* C23: records with missing or invalid coordinates are left out of the    *)
(* clustering input and no exception is raised: given a collection that    *)
(* holds such a record, identify_blackspot_zones with valid parameters     *)
(* completes normally and its summaries count the other records only.      *)
C23_MissingCoordinatesExcluded ==
    /\ status # "ready"
    /\ eps_km > 0
    /\ min_samples > 0
    /\ \E i \in Idx : ~HasCoordinates(i)
    => /\ status = "returned"
       /\ \A b \in Summaries :
              b.accident_count <= Cardinality({i \in Idx : HasCoordinates(i)})

----------------------------------------------------------------------------
(* C24: identify_blackspot_zones never silently clamps an invalid          *)
(* parameter: called with a non-positive eps_km or a non-positive          *)
(* min_samples it returns no summaries computed as if a valid value had    *)
(* been given; the call ends in a validation error, or in the empty result *)
(* of the precondition on an empty or undersized input.                    *)
C24_NoSilentClamping ==
    status # "ready" /\ (eps_km <= 0 \/ min_samples <= 0) =>
        \/ status = "raised" /\ blackspots_df = <<>> /\ cluster = <<>>
        \/ /\ status = "returned"
           /\ df = <<>> \/ Len(df) < min_samples
           /\ blackspots_df = <<>>
           /\ cluster = <<>>

(* a call with eps_km = 0 on enough records that lie together, rejected *)
C24_Witness ==
    /\ status = "raised"
    /\ eps_km = 0
    /\ min_samples >= 2
    /\ Len(df) >= min_samples
    /\ \A i, j \in Idx : df[i].latitude = df[j].latitude /\ df[i].longitude = df[j].longitude

----------------------------------------------------------------------------
(* C25: every record returned by load_accident_data has a latitude in      *)
(* [45, 48] and a longitude in [5, 11], bounds included, both present;     *)
(* a feature with fewer than two coordinates, with a missing coordinate or *)
(* with coordinates outside this box is never returned.                    *)
C25_LoadedInsideBox ==
    status = "loaded" =>
        \A k \in 1..Len(df) :
            /\ df[k].latitude \in 45000..48000
            /\ df[k].longitude \in 5000..11000
            /\ \E f \in 1..Len(features) :
                   /\ features[f].properties.AccidentUID = df[k].AccidentUID
                   /\ Len(features[f].geometry.coordinates) >= 2
                   /\ features[f].geometry.coordinates[1] = df[k].longitude
                   /\ features[f].geometry.coordinates[2] = df[k].latitude

(* a feature on a corner of the box returned, the other feature dropped *)
C25_Witness ==
    /\ status = "loaded"
    /\ Len(features) = 2
    /\ Len(df) = 1
    /\ df[1].latitude \in {45000, 48000}
    /\ df[1].longitude \in {5000, 11000}

----------------------------------------------------------------------------
(* the value of record i is among the values selected in the sidebar for   *)
(* the column, or nothing is selected                                      *)
SelectionAllows(i, selection, column) ==
    sidebar[selection] = <<>> \/ df[i][column] \in Range(sidebar[selection])

(* the hour of record i is in the hour range selected in the sidebar *)
HourSelected(i) ==
    /\ sidebar.selected_hours[1] <= df[i].AccidentHour
    /\ df[i].AccidentHour <= sidebar.selected_hours[2]

(* record i involves the selected parties and no other *)
InvolvesExactlySelected(i) ==
    \A party \in Parties : Involves(i, party) <=> party \in Selected

(* C26: the dashboard's call of filter_data applies each sidebar selection *)
(* to its own criterion: the selected months drive the month criterion,    *)
(* the selected hour range the inclusive hour criterion, the selected      *)
(* parties and mode the party criterion.  So a returned record is in the   *)
(* selected months and hours, and a record that satisfies every selection  *)
(* (as with the defaults: no month chosen, hours 0 to 23) is returned.     *)
C26_SelectionsDriveTheirCriteria ==
    status = "displayed" =>
        \A i \in Idx :
            /\ Kept(i) =>
                   /\ SelectionAllows(i, "selected_months", "AccidentMonth")
                   /\ HourSelected(i)
            /\ /\ SelectionAllows(i, "selected_years", "AccidentYear")
               /\ SelectionAllows(i, "selected_severities", "AccidentSeverityCategory_en")
               /\ SelectionAllows(i, "selected_accident_types", "AccidentType_en")
               /\ SelectionAllows(i, "selected_road_types", "RoadType_en")
               /\ SelectionAllows(i, "selected_cantons", "CantonCode")
               /\ InvolvesExactlySelected(i)
               /\ SelectionAllows(i, "selected_months", "AccidentMonth")
               /\ HourSelected(i)
               => Kept(i)

----------------------------------------------------------------------------
(* C27: in filter_data, when at least one of show_pedestrian, show_bicycle *)
(* and show_motorcycle is set, a record passes the party criterion if and  *)
(* only if it involves a party whose flag is set or involves none of the   *)
(* three parties; a record involving only parties whose flag is not set is *)
(* removed.                                                                *)
C27_ShownOrNoParty ==
    Filtered /\ Shown # {} =>
        \A i \in Idx :
            SatisfiesOthers(i, "party") =>
                (Kept(i) <=>
                    \/ \E party \in Shown : df[i][PartyColumn[party]] = "true"
                    \/ \A party \in Parties : df[i][PartyColumn[party]] = "false")

(* one flag set: a record involving none of the parties kept, a record     *)
(* involving only another party removed                                    *)
C27_Witness ==
    /\ status = "filtered"
    /\ Cardinality(Shown) = 1
    /\ \E i, j \in Idx :
           /\ Kept(i) /\ InvolvesNoParty(i)
           /\ ~Kept(j) /\ ~InvolvesNoParty(j) /\ SatisfiesOthers(j, "party")

----------------------------------------------------------------------------
(* the records of df with those at positions i and j exchanged *)
Exchanged(i, j) ==
    [k \in Idx |-> IF k = i THEN df[j] ELSE IF k = j THEN df[i] ELSE df[k]]

(* the position, after the exchange of i and j, of the record at k *)
PositionAfter(i, j, k) == IF k = i THEN j ELSE IF k = j THEN i ELSE k

(* C28: the clustering does not depend on the order of the records as far  *)
(* as dense records are concerned: for a permutation of the same records   *)
(* the number of clusters is the same, and two records that each have at   *)
(* least min_samples records (themselves counted) within eps_degrees are   *)
(* in the same cluster under one order if and only if they are under the   *)
(* other.  Only a record that is not dense and lies within eps_degrees of  *)
(* dense records of two different clusters may change cluster; no record   *)
(* changes between noise and clustered.  Stated for the exchange of two    *)
(* neighbouring records: every permutation is a chain of such exchanges    *)
(* and every order of the records is an input.                             *)
C28_OrderIndependentForDense ==
    Clustered =>
        \A i, j \in Idx :
            j = i + 1 =>
                LET other == FitPredict(Coords(Exchanged(i, j)), eps_km, min_samples)
                    at(k) == PositionAfter(i, j, k)
                IN /\ Cardinality(Range(other) \ {NoiseLabel}) = Len(blackspots_df)
                   /\ \A a, b \in Idx :
                          Dense(a) /\ Dense(b) =>
                              (cluster[a] = cluster[b] <=> other[at(a)] = other[at(b)])
                   /\ \A a \in Idx :
                          cluster[a] = NoiseLabel <=> other[at(a)] = NoiseLabel
                   /\ \A a \in Idx :
                          LET around == {c \in Idx : Dense(c) /\ Near(a, c)}
                          IN (~Dense(a) /\ \A c, d \in around : cluster[c] = cluster[d])
                                 => \A c \in around : other[at(a)] = other[at(c)]

(* two clusters of dense records and a record that is not dense, in an     *)
(* order where exchanging two records renumbers the clusters               *)
C28_Witness ==
    /\ Clustered
    /\ Len(blackspots_df) = 2
    /\ \E a \in Idx : ~Dense(a) /\ cluster[a] # NoiseLabel
    /\ \E a, b \in Idx : Dense(a) /\ Dense(b) /\ cluster[a] # cluster[b]
    /\ \E i \in Idx \ {Len(df)} :
           FitPredict(Coords(Exchanged(i, i + 1)), eps_km, min_samples)[i + 1] # cluster[i]

----------------------------------------------------------------------------
(* C29: cluster membership is monotone in the parameters: for the same     *)
(* records, a record that is not noise with (eps_km, min_samples) is not   *)
(* noise with any larger eps_km and the same min_samples, nor with the     *)
(* same eps_km and any smaller positive min_samples.                       *)
C29_MonotoneInParameters ==
    Clustered =>
        /\ \A eps \in eps_km..(eps_km + 3) :
               LET wider == FitPredict(Coords(df), eps, min_samples)
               IN \A i \in Idx : cluster[i] # NoiseLabel => wider[i] # NoiseLabel
        /\ \A m \in 1..min_samples :
               LET fewer == FitPredict(Coords(df), eps_km, m)
               IN \A i \in Idx : cluster[i] # NoiseLabel => fewer[i] # NoiseLabel

(* a clustered record and a noise record that is clustered with a larger   *)
(* eps_km, and another that is clustered with a smaller min_samples        *)
C29_Witness ==
    /\ Clustered
    /\ min_samples >= 2
    /\ \E i, j, k \in Idx :
           /\ cluster[i] # NoiseLabel
           /\ cluster[j] = NoiseLabel
           /\ FitPredict(Coords(df), eps_km + 2, min_samples)[j] # NoiseLabel
           /\ cluster[k] = NoiseLabel
           /\ FitPredict(Coords(df), eps_km, min_samples - 1)[k] # NoiseLabel

----------------------------------------------------------------------------
(* the values of a column among the records at hand *)
ColumnValues(column) == {r[column] : r \in FilterPool}

(* a list of the elements of S *)
RECURSIVE ListOf(_)
ListOf(S) ==
    IF S = {} THEN <<>>
    ELSE LET x == CHOOSE y \in S : TRUE IN <<x>> \o ListOf(S \ {x})

(* the lists that hold some of the values allowed by categorical criterion *)
(* c of the call: a part of its list, or any list when it is unspecified   *)
SmallerLists(c) ==
    IF Unspecified(filter_args[c])
    THEN {List(ListOf(S)) : S \in SUBSET ColumnValues(CategoricalColumn[c])}
    ELSE {List(ListOf(S)) : S \in SUBSET Elements(filter_args[c])}

(* the hour ranges inside the hour range of the call *)
NarrowerRanges ==
    {Tuple(<<s, e>>) : s \in ColumnValues("AccidentHour"), e \in ColumnValues("AccidentHour")}
      \ (IF Unspecified(filter_args.hour_range) THEN {}
         ELSE {Tuple(<<s, e>>) : s \in 0..(filter_args.hour_range.items[1] - 1),
                                 e \in ColumnValues("AccidentHour")}
              \cup {Tuple(<<s, e>>) : s \in ColumnValues("AccidentHour"),
                                      e \in (filter_args.hour_range.items[2] + 1)..23})

(* the index labels of the rows *)
Labels(rows) == {rows[k].index : k \in 1..Len(rows)}

(* filtering the result again with the same criteria returns it as it is *)
Idempotent == FilteredRows(filtered_df, filter_args) = filtered_df

(* a narrower hour range adds no record to the result *)
NarrowerRangeAddsNothing ==
    \A v \in NarrowerRanges :
        Labels(FilteredRows(df, [filter_args EXCEPT !.hour_range = v]))
            \subseteq Labels(filtered_df)

(* C30 as stated: filter_data is idempotent and monotone: filtering its    *)
(* output again with the same criteria returns the same records, and a     *)
(* stricter criterion (a smaller categorical set, a narrower hour range)   *)
(* never adds a record to the result.                                      *)
C30_IdempotentAndMonotone ==
    status = "filtered" =>
        /\ Idempotent
        /\ NarrowerRangeAddsNothing
        /\ \A c \in Categorical :
               \A v \in SmallerLists(c) :
                   Labels(FilteredRows(df, [filter_args EXCEPT ![c] = v]))
                       \subseteq Labels(filtered_df)

(* C30 amended: filter_data is idempotent, and a narrower hour range or a  *)
(* smaller categorical set that is not empty never adds a record to the    *)
(* result.                                                                 *)
C30_IdempotentAndMonotoneNonEmpty ==
    status = "filtered" =>
        /\ Idempotent
        /\ NarrowerRangeAddsNothing
        /\ \A c \in Categorical :
               \A v \in SmallerLists(c) :
                   Elements(v) # {} =>
                       Labels(FilteredRows(df, [filter_args EXCEPT ![c] = v]))
                           \subseteq Labels(filtered_df)

(* a call that kept two records by a list of two values, one of which a    *)
(* list of one value removes, and an hour range given that removes one     *)
C30_Witness ==
    /\ status = "filtered"
    /\ Len(filtered_df) = 2
    /\ \E c \in Categorical :
           /\ Cardinality(Elements(filter_args[c])) = 2
           /\ \E v \in SmallerLists(c) :
                  Len(FilteredRows(df, [filter_args EXCEPT ![c] = v])) = 1
    /\ \E v \in NarrowerRanges :
           Len(FilteredRows(df, [filter_args EXCEPT !.hour_range = v])) = 1

====
